---- MODULE Spec2Model ----
(***************************************************************************)
(* Model of ioos_catalog/models/ping_latest.py: the PingLatest document,   *)
(* a rolling weekly window of pings of one service.                        *)
(*                                                                         *)
(* Time is counted in minutes since a Monday 00:00 UTC, so a timestamp has *)
(* an hour and a minute inside the hour.  A Python value that may be None  *)
(* is a sequence of length 0 or 1: None is << >> and the value v is        *)
(* << v >>.                                                                *)
(***************************************************************************)
EXTENDS Integers, Sequences, FiniteSets

VARIABLES
    pl,       \* the PingLatest document
    prev,     \* the document before the last call
    call,     \* the last call: operation and arguments
    ret,      \* what the last call returned
    written,  \* for each slot, the last write to it
    good,     \* dt of the last recorded sample that was operational
    iters,    \* iterations of the while loop in the last call
    calls,    \* calls made so far
    view,     \* the clock reading and the result of the last get_current_data
    index,    \* timestamps handed to get_index and the indexes returned
    threads,  \* the set_ping_data calls that run concurrently on the document
    store,    \* the documents saved in the ping_latest collection
    clients   \* the callers of get_for_service

\* the variables of the calls made one after another on one document
serial == << pl, prev, call, ret, written, good, iters, calls, view >>

\* the other variables
others == << index, threads, store, clients >>

vars == << pl, prev, call, ret, written, good, iters, calls, view,
           index, threads, store, clients >>

\* ---------------------------------------------------------------- bounds
MaxRecorded  == 3
MaxCycles    == 2
MaxViewed    == 2
MaxIndexHour == 170
MaxStored     == 3

\* hour of the first sample of a record, the gaps (in hours, from the hour of
\* updated) of the later ones, and the minutes of the hour of all of them
StartHours   == {2, 167}
RecorderGaps == {0, 1, 3, 167, 168, 200}
ExecutorGaps == {-1, 0, 1, 168}
ViewGaps     == {1, 167}
NowGaps      == {-1, 0, 1, 5, 168}
RaceGaps     == {0, 2}
Minutes      == {0, 30}

\* ------------------------------------------------------- optional values
None    == << >>
Some(v) == << v >>
Val(o)  == o[1]

\* ------------------------------------------------------------- calendar
MinutesPerHour == 60
HoursPerDay == 24
DaysPerWeek == 7
NumSlots    == HoursPerDay * DaysPerWeek
Slots       == 0 .. (NumSlots - 1)
\* timedelta(hours=1)
Hour        == MinutesPerHour

\* absolute hour of a timestamp (hours since the epoch)
HourOf(t)  == t \div Hour
weekday(t) == (t \div (Hour * HoursPerDay)) % DaysPerWeek
hour(t)    == (t \div Hour) % HoursPerDay

\* mutant of the index: the weekday counted from Sunday
get_index_sunday(dt) ==
    IF dt = None THEN None
    ELSE Some(((weekday(Val(dt)) + 1) % DaysPerWeek) * HoursPerDay
              + hour(Val(dt)))

get_index(dt) ==
    IF dt = None THEN None
    ELSE Some(weekday(Val(dt)) * HoursPerDay + hour(Val(dt)))

\* ----------------------------------------------------------- the record
default_values ==
    [ service_id              |-> "svc",
      last_response_time      |-> None,
      last_response_code      |-> None,
      last_operational_status |-> None,
      last_good_time          |-> None,
      response_times          |-> [i \in Slots |-> None],
      response_codes          |-> [i \in Slots |-> None],
      operational_statuses    |-> [i \in Slots |-> None],
      updated                 |-> None ]

\* ------------------------------------------------------- set_ping_data
\* mutants of the guard: no guard at all, one that compares the hours only,
\* one with the comparison reversed
IsStaleNever(start_dt, dt) == FALSE

IsStaleReversed(start_dt, dt) == start_dt # None /\ Val(start_dt) < Val(dt)

IsStaleByHour(start_dt, dt) ==
    start_dt # None /\ HourOf(Val(start_dt)) > HourOf(Val(dt))

\* the guard of the early return: the sample is older than the last one
IsStale(start_dt, dt) == start_dt # None /\ Val(start_dt) > Val(dt)

\* mutants of the walk: one that starts at updated itself, one never entered
WalkTimesFromUpdated(updated, dt) ==
    IF updated = None \/ Val(dt) <= Val(updated) THEN {}
    ELSE { t \in { Val(updated) + j * Hour :
                     j \in 0 .. ((Val(dt) - Val(updated)) \div Hour + 1) } :
           t < Val(dt) }

WalkTimesNone(updated, dt) == {}

\* mutant of the walk: capped at one week
WalkTimesOneWeek(updated, dt) ==
    IF updated = None \/ Val(dt) <= Val(updated) THEN {}
    ELSE { t \in { Val(updated) + j * Hour : j \in 1 .. NumSlots } :
           t < Val(dt) }

\* the timestamps the while loop visits: updated + 1h, updated + 2h, ...
\* as long as they are before dt
WalkTimes(updated, dt) ==
    IF updated = None \/ Val(dt) <= Val(updated) THEN {}
    ELSE { t \in { Val(updated) + j * Hour :
                     j \in 1 .. ((Val(dt) - Val(updated)) \div Hour + 1) } :
           t < Val(dt) }

\* the number of iterations of the while loop, one for each timestamp
WalkLength(updated, dt) == Cardinality(WalkTimes(updated, dt))

\* the slots the while loop sets to None
WalkSlots(updated, dt) == { Val(get_index(Some(t))) : t \in WalkTimes(updated, dt) }

\* mutant of the write: the walk run after it
RollingWindowWalkLast(arr, walked, idx, value) ==
    [i \in Slots |-> IF i \in walked THEN None
                     ELSE IF i = idx THEN value
                     ELSE arr[i]]

\* one of the three arrays after the walk has set the slots walked to None
\* and the new value is written at idx
RollingWindow(arr, walked, idx, value) ==
    [i \in Slots |-> IF i = idx THEN value
                     ELSE IF i \in walked THEN None
                     ELSE arr[i]]

\* mutants of last_good_time: never set, and cleared by a sample that is not
\* operational
LastGoodTimeNever(last_good_time, dt, operational_status) == last_good_time

LastGoodTimeCleared(last_good_time, dt, operational_status) ==
    IF operational_status = Some(TRUE) THEN dt ELSE None

\* if operational_status: self.last_good_time = dt
LastGoodTime(last_good_time, dt, operational_status) ==
    IF operational_status = Some(TRUE) THEN dt ELSE last_good_time

\* the record after the walk, "set latest" and "set rolling window"
Recorded(self, walked, idx, dt, response_time, response_code, operational_status) ==
    [self EXCEPT
       !.updated                 = dt,
       !.last_response_time      = response_time,
       !.last_response_code      = response_code,
       !.last_operational_status = operational_status,
       !.last_good_time          = LastGoodTime(@, dt, operational_status),
       !.response_times          = RollingWindow(@, walked, idx, response_time),
       !.response_codes          = RollingWindow(@, walked, idx, response_code),
       !.operational_statuses    =
           RollingWindow(@, walked, idx, operational_status)]

\* the record and the return value after self.set_ping_data(dt, ...)
set_ping_data(self, dt, response_time, response_code, operational_status) ==
    IF IsStale(self.updated, dt)
    THEN [self |-> self, ret |-> None]
    ELSE [self |-> Recorded(self, WalkSlots(self.updated, dt),
                            Val(get_index(dt)), dt, response_time,
                            response_code, operational_status),
          ret  |-> get_index(dt)]

\* -------------------------------------------------------- ping_service
\* mutant of the classification: the list read as a range
ClassifyRange(response_code) == response_code >= 200 /\ response_code <= 400

\* operational_status = True if response_code in [200,400] else False
Classify(response_code) == response_code \in {200, 400}

\* the exceptions of the probe that ping_service catches
CaughtErrors == {"ConnectionError", "HTTPError", "Timeout"}

\* mutant of the except branch: no response code either
FailedSampleNoCode ==
    [response_time |-> None, response_code |-> None,
     operational_status |-> Some(FALSE)]

\* the sample of the except branch
FailedSample ==
    [response_time |-> None, response_code |-> Some(-1),
     operational_status |-> Some(FALSE)]

\* the sample ping_service hands to set_ping_data for a probe outcome
ProbeSample(probe) ==
    IF probe.kind \in CaughtErrors THEN FailedSample
    ELSE [response_time      |-> Some(probe.response_time),
          response_code      |-> Some(probe.response_code),
          operational_status |-> Some(Classify(probe.response_code))]

\* mutant of the flip: any change of status
FlippedSymmetric(last, operational_status) ==
    IF last = None THEN None ELSE Some(last # operational_status)

\* Python's `last and (last != operational_status)`: the left operand when it
\* is falsy (None or False), the right operand otherwise
Flipped(last, operational_status) ==
    IF last = Some(TRUE) THEN Some(last # operational_status) ELSE last

\* mutant of the comparison: new only when the index has grown
IsNewSlotAdvanced(last_idx, idx) ==
    last_idx = None \/ idx = None \/ Val(idx) > Val(last_idx)

\* last_idx != idx
IsNewSlot(last_idx, idx) == last_idx # idx

\* what db.Service.find_one({'_id': self.service_id}) may return
ServiceLookup == {None, Some("svc")}

\* the call ends in the AssertionError of `assert s is not None`
AssertionError == << "AssertionError" >>

\* mutant of the assertion: no assertion
ServiceMissingNever(s) == FALSE

\* the assertion fails
ServiceMissing(s) == s = None

\* the record and the returned 2-tuple after self.ping_service(), the service
\* found being s, the clock reading dt and the probe ending in the outcome
\* probe; probed tells whether s.ping was called
ping_service(self, s, dt, probe) ==
    IF ServiceMissing(s)
    THEN [self |-> self, idx |-> None, ret |-> AssertionError, probed |-> FALSE]
    ELSE
    LET last     == self.last_operational_status
        last_idx == get_index(self.updated)
        sample   == ProbeSample(probe)
        r        == set_ping_data(self, dt, sample.response_time,
                                  sample.response_code,
                                  sample.operational_status)
    IN  [self |-> r.self,
         idx  |-> r.ret,
         ret  |-> << IsNewSlot(last_idx, r.ret),
                     Flipped(last, sample.operational_status) >>,
         probed |-> TRUE]

\* the outcomes of s.ping(timeout=15)
ProbeOutcomes ==
    { [kind |-> "ok", response_time |-> 120, response_code |-> c] :
        c \in {200, 301, 400, 404} }
    \cup { [kind |-> e, response_time |-> 0, response_code |-> 0] :
             e \in CaughtErrors }

\* ----------------------------------------------------- get_for_service
\* the service ids looked up
ServiceIds == {"svc", "svc2"}

\* mutant of the creation: service_id is not set
NewDocumentNoService(service_id) ==
    [_id |-> None, doc |-> [default_values EXCEPT !.service_id = "none"]]

\* db.PingLatest() with pl.service_id = service_id: not saved, so without _id
NewDocument(service_id) ==
    [_id |-> None, doc |-> [default_values EXCEPT !.service_id = service_id]]

\* the documents get_for_service(service_id) may return, coll being the
\* collection: one find_one matches, a new one if it matches nothing
get_for_service(coll, service_id) ==
    LET found == { d \in coll : d.doc.service_id = service_id }
    IN  IF found = {} THEN {NewDocument(service_id)} ELSE found

\* the collection after doc.save(): a document without _id is inserted under a
\* new _id, a document with an _id replaces the one saved under it
Save(coll, d) ==
    IF d._id = None
    THEN coll \cup {[d EXCEPT !._id = Some(Cardinality(coll) + 1)]}
    ELSE { x \in coll : x._id # d._id } \cup {d}

\* ---------------------------------------------------- get_current_data
\* the Python slice arr[a:b] of a list of NumSlots elements, as a sequence
Slice(arr, a, b) == [k \in 1 .. (b - a) |-> arr[a + k - 1]]

\* mutant of the rotation: starts at the slot of now
get_current_data_from_idx(self, now) ==
    LET idx == Val(get_index(now))
    IN  IF idx = NumSlots - 1
        THEN << Slice(self.response_times, 0, NumSlots),
                Slice(self.operational_statuses, 0, NumSlots) >>
        ELSE << Slice(self.response_times, idx, NumSlots)
                  \o Slice(self.response_times, 0, idx),
                Slice(self.operational_statuses, idx, NumSlots)
                  \o Slice(self.operational_statuses, 0, idx) >>

\* the pair self.get_current_data() returns, the clock reading now
get_current_data(self, now) ==
    LET idx       == Val(get_index(now))
        start_idx == idx + 1
    IN  IF idx = NumSlots - 1
        THEN << Slice(self.response_times, 0, NumSlots),
                Slice(self.operational_statuses, 0, NumSlots) >>
        ELSE << Slice(self.response_times, start_idx, NumSlots)
                  \o Slice(self.response_times, 0, start_idx),
                Slice(self.operational_statuses, start_idx, NumSlots)
                  \o Slice(self.operational_statuses, 0, start_idx) >>

\* ------------------------------------------------------------- inputs
\* the sample times tried on a record
SampleTimes(updated, gaps) ==
    IF updated = None
    THEN { h * Hour + m : h \in StartHours, m \in Minutes }
    ELSE { t \in { (HourOf(Val(updated)) + g) * Hour + m :
                     g \in gaps, m \in Minutes } : t >= 0 }

\* the samples handed to set_ping_data: the ones ping_service builds from a
\* good probe and from a failed one
RecorderSamples ==
    { ProbeSample(p) :
        p \in { [kind |-> "ok", response_time |-> 120, response_code |-> 200],
                [kind |-> "Timeout", response_time |-> 0, response_code |-> 0] } }

NoCall == [op |-> "none", dt |-> None, response_time |-> None,
           response_code |-> None, operational_status |-> None,
           probe |-> "none", service |-> None]

\* the last write to each slot: when and what
Written(w, r, dt, s) ==
    IF r.ret = None THEN w
    ELSE [w EXCEPT ![Val(r.ret)] = Some([dt |-> Val(dt), sample |-> s])]

\* dt of the last recorded operational sample, after a call with sample s at t
GoodSample(g, updated, t, s) ==
    IF (updated = None \/ t >= Val(updated)) /\ s.operational_status = Some(TRUE)
    THEN Some(t) ELSE g

\* iterations of the while loop in a call that returned r
Iterations(r, updated, dt) ==
    IF r.ret = None THEN 0 ELSE WalkLength(updated, dt)

\* a thread or a client that has not called yet
Threads == {"A", "B"}

IdleThread == [pc |-> "idle", dt |-> None, sample |-> None, seen |-> None,
               start_dt |-> None, ret |-> None]

Clients == {"c1", "c2"}

IdleClient == [pc |-> "idle", service_id |-> None, found |-> FALSE,
               doc |-> None]

\* the timestamps handed to get_index: t in the first MaxIndexHour hours, u
\* at one of the shifts (in minutes) from t
IndexShifts == {-60, -30, 30, 60, 1440, 10020, 10080, 10140, 20160}

IndexInputs ==
    { [t |-> h * Hour + m, u |-> h * Hour + m + d, idx |-> None] :
        h \in 0 .. MaxIndexHour, m \in Minutes, d \in IndexShifts }

\* timedelta(days=7)
Week == DaysPerWeek * HoursPerDay * Hour

\* ------------------------------------------------------------- actions
Init ==
    /\ pl      = default_values
    /\ prev    = default_values
    /\ call    = NoCall
    /\ ret     = None
    /\ written = [i \in Slots |-> None]
    /\ good    = None
    /\ iters   = 0
    /\ calls   = 0
    /\ view    = None
    /\ index   = None
    /\ threads = [th \in Threads |-> IdleThread]
    /\ store   = {}
    /\ clients = [c \in Clients |-> IdleClient]

\* a caller records one sample: pl.set_ping_data(dt, ...), dt at one of the
\* gaps after updated, at most max calls
RecordSampleAt(gaps, max) ==
    /\ calls < max
    /\ \E t \in SampleTimes(pl.updated, gaps), s \in RecorderSamples :
         LET r == set_ping_data(pl, Some(t), s.response_time, s.response_code,
                                s.operational_status)
         IN  /\ pl'      = r.self
             /\ ret'     = r.ret
             /\ prev'    = pl
             /\ call'    = [op |-> "set_ping_data", dt |-> Some(t),
                            response_time |-> s.response_time,
                            response_code |-> s.response_code,
                            operational_status |-> s.operational_status,
                            probe |-> "none", service |-> None]
             /\ written' = Written(written, r, Some(t), s)
             /\ good'    = GoodSample(good, pl.updated, t, s)
             /\ iters'   = Iterations(r, pl.updated, Some(t))
    /\ calls' = calls + 1
    /\ view'  = None
    /\ UNCHANGED others

RecordSample == RecordSampleAt(RecorderGaps, MaxRecorded)

NextRecorder == RecordSample

SpecRecorder == Init /\ [][NextRecorder]_vars

\* the arguments of a ping_service call that returned (op "ping_service") or
\* ended in the AssertionError (op "ping_service_assert", nothing probed)
PingCall(r, s, t, probe) ==
    IF r.probed
    THEN [op |-> "ping_service", dt |-> Some(t),
          response_time |-> ProbeSample(probe).response_time,
          response_code |-> ProbeSample(probe).response_code,
          operational_status |-> ProbeSample(probe).operational_status,
          probe |-> probe.kind, service |-> s]
    ELSE [op |-> "ping_service_assert", dt |-> Some(t),
          response_time |-> None, response_code |-> None,
          operational_status |-> None, probe |-> "none", service |-> s]

\* one ping cycle: pl.ping_service(), dt being the reading of the clock
PingService ==
    /\ calls < MaxCycles
    /\ \E s \in ServiceLookup, t \in SampleTimes(pl.updated, ExecutorGaps),
          probe \in ProbeOutcomes :
         LET r == ping_service(pl, s, Some(t), probe)
         IN  /\ pl'      = r.self
             /\ ret'     = r.ret
             /\ prev'    = pl
             /\ call'    = PingCall(r, s, t, probe)
             /\ written' = Written(written, [ret |-> r.idx], Some(t),
                                   ProbeSample(probe))
             /\ good'    = IF r.probed
                           THEN GoodSample(good, pl.updated, t, ProbeSample(probe))
                           ELSE good
             /\ iters'   = Iterations([ret |-> r.idx], pl.updated, Some(t))
    /\ calls' = calls + 1
    /\ view'  = None
    /\ UNCHANGED others

NextExecutor == PingService

SpecExecutor == Init /\ [][NextExecutor]_vars

\* a consumer reads the window: pl.get_current_data(), now being the reading
\* of the clock
GetCurrentData ==
    /\ view = None
    /\ \E t \in SampleTimes(pl.updated, NowGaps) :
         view' = Some([now   |-> t,
                       times |-> get_current_data(pl, Some(t))[1],
                       statuses |-> get_current_data(pl, Some(t))[2]])
    /\ UNCHANGED << pl, prev, call, ret, written, good, iters, calls >>
    /\ UNCHANGED others

NextView == RecordSampleAt(ViewGaps, MaxViewed) \/ GetCurrentData

SpecView == Init /\ [][NextView]_vars

\* get_index on two timestamps and on the first one a week later
InitIndex ==
    /\ pl      = default_values
    /\ prev    = default_values
    /\ call    = NoCall
    /\ ret     = None
    /\ written = [i \in Slots |-> None]
    /\ good    = None
    /\ iters   = 0
    /\ calls   = 0
    /\ view    = None
    /\ index   \in { Some(x) : x \in { y \in IndexInputs : y.u >= 0 } }
    /\ threads = [th \in Threads |-> IdleThread]
    /\ store   = {}
    /\ clients = [c \in Clients |-> IdleClient]

GetIndex ==
    /\ index # None
    /\ Val(index).idx = None
    /\ index' = Some([Val(index) EXCEPT
                        !.idx = Some([t    |-> get_index(Some(Val(index).t)),
                                      u    |-> get_index(Some(Val(index).u)),
                                      week |-> get_index(Some(Val(index).t + Week))])])
    /\ UNCHANGED << serial, threads, store, clients >>

NextIndex == GetIndex

SpecIndex == InitIndex /\ [][NextIndex]_vars

\* ------------------------------------ set_ping_data calls that interleave
\* Two callers run set_ping_data on the same document with no lock.  A call
\* is cut where the other one can run in between: after it took its
\* arguments, after it read self.updated and compared it with dt
\* (lines 101-105), after each iteration of the while loop (lines 109-116),
\* after "set latest" (lines 119-124) and after "set rolling window"
\* (lines 127-130).

\* the first sample of the document, recorded before the callers start
RaceFirst ==
    /\ pl.updated = None
    /\ \A th \in Threads : threads[th].pc = "idle"
    /\ RecordSampleAt(RaceGaps, MaxRecorded)

\* the call is made: dt and the sample are its arguments
RaceBegin(th) ==
    /\ threads[th].pc = "idle"
    /\ \E t \in SampleTimes(pl.updated, RaceGaps), s \in RecorderSamples :
         threads' = [threads EXCEPT ![th] =
                        [@ EXCEPT !.pc = "check", !.dt = Some(t),
                                  !.sample = Some(s)]]
    /\ UNCHANGED << serial, index, store, clients >>

\* start_dt = self.updated; the early return; start_dt += timedelta(hours=1)
RaceCheck(th) ==
    /\ threads[th].pc = "check"
    /\ threads' = [threads EXCEPT ![th] =
          IF IsStale(pl.updated, threads[th].dt)
          THEN [@ EXCEPT !.pc = "done", !.seen = pl.updated, !.ret = None]
          ELSE IF pl.updated = None
          THEN [@ EXCEPT !.pc = "latest", !.seen = pl.updated]
          ELSE [@ EXCEPT !.pc = "walk", !.seen = pl.updated,
                         !.start_dt = Some(Val(pl.updated) + Hour)]]
    /\ UNCHANGED << serial, index, store, clients >>

\* one test of `start_dt < dt` and, when it holds, one iteration
RaceWalk(th) ==
    /\ threads[th].pc = "walk"
    /\ IF Val(threads[th].start_dt) < Val(threads[th].dt)
       THEN LET idx == Val(get_index(threads[th].start_dt))
            IN  /\ pl' = [pl EXCEPT !.response_times[idx]       = None,
                                    !.response_codes[idx]       = None,
                                    !.operational_statuses[idx] = None]
                /\ threads' = [threads EXCEPT ![th].start_dt =
                                  Some(Val(threads[th].start_dt) + Hour)]
       ELSE /\ pl' = pl
            /\ threads' = [threads EXCEPT ![th].pc = "latest"]
    /\ UNCHANGED << prev, call, ret, written, good, iters, calls, view >>
    /\ UNCHANGED << index, store, clients >>

\* set latest
RaceSetLatest(th) ==
    /\ threads[th].pc = "latest"
    /\ LET s == Val(threads[th].sample)
       IN  pl' = [pl EXCEPT
                    !.updated                 = threads[th].dt,
                    !.last_response_time      = s.response_time,
                    !.last_response_code      = s.response_code,
                    !.last_operational_status = s.operational_status,
                    !.last_good_time          =
                        LastGoodTime(@, threads[th].dt, s.operational_status)]
    /\ threads' = [threads EXCEPT ![th].pc = "window"]
    /\ UNCHANGED << prev, call, ret, written, good, iters, calls, view >>
    /\ UNCHANGED << index, store, clients >>

\* set rolling window; return idx
RaceSetWindow(th) ==
    /\ threads[th].pc = "window"
    /\ LET s   == Val(threads[th].sample)
           idx == Val(get_index(threads[th].dt))
       IN  pl' = [pl EXCEPT !.response_times[idx]       = s.response_time,
                           !.response_codes[idx]       = s.response_code,
                           !.operational_statuses[idx] = s.operational_status]
    /\ threads' = [threads EXCEPT ![th].pc = "done",
                                  ![th].ret = get_index(threads[th].dt)]
    /\ UNCHANGED << prev, call, ret, written, good, iters, calls, view >>
    /\ UNCHANGED << index, store, clients >>

NextRace ==
    \/ RaceFirst
    \/ \E th \in Threads : RaceBegin(th)
    \/ \E th \in Threads : RaceCheck(th)
    \/ \E th \in Threads : RaceWalk(th)
    \/ \E th \in Threads : RaceSetLatest(th)
    \/ \E th \in Threads : RaceSetWindow(th)

SpecRace == Init /\ [][NextRace]_vars

\* ------------------------------------------- find-or-create and save
\* a caller looks a service up: PingLatest.get_for_service(service_id)
GetForService(c) ==
    /\ clients[c].pc = "idle"
    /\ \E sid \in ServiceIds : \E d \in get_for_service(store, sid) :
         clients' = [clients EXCEPT ![c] =
                        [pc |-> "got", service_id |-> Some(sid),
                         found |-> (\E x \in store : x.doc.service_id = sid),
                         doc |-> Some(d)]]
    /\ UNCHANGED << serial, index, threads, store >>

\* the caller saves the document it got
SaveDocument(c) ==
    /\ clients[c].pc = "got"
    /\ store' = Save(store, Val(clients[c].doc))
    /\ clients' = [clients EXCEPT ![c].pc = "saved"]
    /\ UNCHANGED << serial, index, threads >>

\* the caller is done with the document and may look a service up again
Release(c) ==
    /\ clients[c].pc = "saved"
    /\ Cardinality(store) < MaxStored
    /\ clients' = [clients EXCEPT ![c] = IdleClient]
    /\ UNCHANGED << serial, index, threads, store >>

NextCreate ==
    \/ \E c \in Clients : GetForService(c)
    \/ \E c \in Clients : SaveDocument(c)
    \/ \E c \in Clients : Release(c)

SpecCreate == Init /\ [][NextCreate]_vars

\* every operation on the document and on the collection
Next ==
    \/ RecordSample
    \/ PingService
    \/ GetCurrentData
    \/ NextRace
    \/ NextCreate

Spec == Init /\ [][Next]_vars

\* ------------------------------------------------- vocabulary of the claims
\* the three entries of slot i of a record
Triple(r, i) == << r.response_times[i], r.response_codes[i],
                   r.operational_statuses[i] >>

AbsentTriple == << None, None, None >>

Present(r, i) == Triple(r, i) # AbsentTriple

\* the sample of the last call, as a triple
CallTriple == << call.response_time, call.response_code,
                 call.operational_status >>

\* hour-of-week of an absolute hour (hour 0 is Monday 00:00)
SlotOfHour(h) == h % NumSlots

SlotOfTime(t) == SlotOfHour(t \div MinutesPerHour)

Called == call.op # "none"

\* the last call had a sample older than the record's updated
StaleCall == Called /\ prev.updated # None /\ Val(call.dt) < Val(prev.updated)

\* the last call had a sample that set_ping_data is to record
FreshCall == Called /\ ~StaleCall

\* hours from the hour of the previous updated to the hour of the sample
GapHours == (Val(call.dt) \div MinutesPerHour) - (Val(prev.updated) \div MinutesPerHour)

\* slot i is the slot of an hour strictly between those two hours: it lies
\* 1 .. GapHours - 1 places after the slot of the previous updated on the ring
Between(i) ==
    ((i - SlotOfTime(Val(prev.updated))) % NumSlots) \in 1 .. (GapHours - 1)

\* ---------------------------------------------------------------- C1
\* C1: set_ping_data on a record whose updated is set, with dt >= updated in
\* the k-th hour after the hour of updated, 0 <= k <= 167: the slots of the
\* hours strictly between are absent in all three arrays, the slot of dt holds
\* the new triple, every other slot (the slot of updated too, when k >= 1) is
\* unchanged.  With updated unset only the slot of dt changes.
C1_FrameEffect ==
    (FreshCall /\ (prev.updated # None => GapHours \in 0 .. (NumSlots - 1))) =>
        \A i \in Slots :
            IF i = SlotOfTime(Val(call.dt)) THEN Triple(pl, i) = CallTriple
            ELSE IF prev.updated # None /\ Between(i)
                 THEN Triple(pl, i) = AbsentTriple
                 ELSE Triple(pl, i) = Triple(prev, i)

\* a sample three hours after updated nulled a slot that held a sample, and
\* left another one that held a sample alone
C1_Witness ==
    /\ FreshCall /\ call.op = "set_ping_data"
    /\ prev.updated # None
    /\ GapHours = 3
    /\ \E i \in Slots : Between(i) /\ Present(prev, i) /\ ~Present(pl, i)
    /\ Present(pl, SlotOfTime(Val(prev.updated)))
    /\ pl.updated = call.dt

\* ---------------------------------------------------------------- C2
\* C2: in every reachable state each slot that holds something holds the
\* sample of the last write to that slot, made at a time t of that hour-of-week
\* with updated - t < 168 hours; after a sample 168 hours or more after the
\* previous updated every slot but the slot of dt is absent.
C2_NoStaleData ==
    /\ \A i \in Slots :
         Present(pl, i) =>
            /\ written[i] # None
            /\ SlotOfTime(Val(written[i]).dt) = i
            /\ Val(pl.updated) - Val(written[i]).dt < NumSlots * MinutesPerHour
            /\ Triple(pl, i) = << Val(written[i]).sample.response_time,
                                  Val(written[i]).sample.response_code,
                                  Val(written[i]).sample.operational_status >>
    /\ (/\ FreshCall
        /\ prev.updated # None
        /\ Val(call.dt) - Val(prev.updated) >= NumSlots * MinutesPerHour)
       => \A i \in Slots \ {SlotOfTime(Val(call.dt))} : ~Present(pl, i)

\* a sample more than a week after updated emptied two slots that held samples
C2_Witness ==
    /\ FreshCall
    /\ prev.updated # None
    /\ Val(call.dt) - Val(prev.updated) > NumSlots * MinutesPerHour
    /\ \E i, j \in Slots : i # j /\ Present(prev, i) /\ Present(prev, j)
                           /\ ~Present(pl, i) /\ ~Present(pl, j)

\* a slot written more than a week before was emptied by a walk of a few hours
C2_WitnessWalk ==
    /\ FreshCall
    /\ prev.updated # None
    /\ GapHours = 3
    /\ \E i \in Slots :
         /\ Present(prev, i) /\ ~Present(pl, i)
         /\ Val(pl.updated) - Val(written[i]).dt >= NumSlots * MinutesPerHour

\* ---------------------------------------------------------------- C3
\* C3 as stated: in every reachable state the triple of every slot is all
\* absent or all present, also after a failed probe was recorded.
C3_AllOrNothing ==
    \A i \in Slots :
        \/ Triple(pl, i) = AbsentTriple
        \/ /\ pl.response_times[i] # None
           /\ pl.response_codes[i] # None
           /\ pl.operational_statuses[i] # None

\* C3 as amended: in every reachable state the response code and the
\* operational status of a slot are both absent or both present, the response
\* time is present only if they are, and a slot with a code but no response
\* time holds the failed sample (absent, -1, false).
C3_CodeAndStatusTogether ==
    \A i \in Slots :
        /\ (pl.response_codes[i] = None) <=> (pl.operational_statuses[i] = None)
        /\ pl.response_times[i] # None => pl.response_codes[i] # None
        /\ (pl.response_times[i] = None /\ pl.response_codes[i] # None)
              => Triple(pl, i) = << None, Some(-1), Some(FALSE) >>

\* a record with a failed sample in one slot, a good one in another, after a
\* walk that emptied a third
C3_Witness ==
    /\ \E i \in Slots : Triple(pl, i) = << None, Some(-1), Some(FALSE) >>
    /\ \E i \in Slots : pl.response_times[i] # None
    /\ \E i \in Slots : Present(prev, i) /\ ~Present(pl, i)

\* ---------------------------------------------------------------- C4
\* C4: with the calls made one after another, updated never decreases and,
\* once set, stays set.
C4_UpdatedMonotonic ==
    [][pl.updated # None =>
          /\ pl'.updated # None
          /\ Val(pl'.updated) >= Val(pl.updated)]_vars

\* an older sample came after a newer one and updated kept the newer time
C4_Witness ==
    /\ StaleCall
    /\ pl.updated = prev.updated
    /\ Val(pl.updated) > Val(call.dt)

\* ---------------------------------------------------------------- C5
\* C5: a sample with dt < updated changes nothing in the record (updated, the
\* four last_ fields, the three arrays) and set_ping_data returns no slot.
C5_StaleRejected ==
    StaleCall =>
        /\ pl = prev
        /\ call.op = "set_ping_data" => ret = None

\* set_ping_data was called with a sample older than updated, unlike the
\* last one recorded
C5_Witness ==
    /\ StaleCall
    /\ call.op = "set_ping_data"
    /\ call.response_code # prev.last_response_code
    /\ ret = None

\* ---------------------------------------------------------------- C6
\* the 2-tuples ping_service returns for a recorded sample
OrdinaryPairs ==
    { << n, f >> : n \in BOOLEAN, f \in {None, Some(FALSE), Some(TRUE)} }

\* C6: a ping_service call whose sample is dropped because dt < updated does
\* not return an ordinary (is_new_slot, flipped) pair; it reports neither a new
\* slot nor a flip.
C6_StaleSurfaced ==
    (call.op = "ping_service" /\ StaleCall) =>
        /\ ret \notin OrdinaryPairs
        /\ ret[1] # TRUE
        /\ ret[2] # Some(TRUE)

C8_FailureRecorded ==
    (call.op = "ping_service" /\ call.probe \in CaughtErrors) =>
        /\ ret \in OrdinaryPairs
        /\ pl.last_response_time = None
        /\ pl.last_response_code = Some(-1)
        /\ pl.last_operational_status = Some(FALSE)
        /\ Triple(pl, SlotOfTime(Val(call.dt))) = << None, Some(-1), Some(FALSE) >>
        /\ pl.last_good_time = prev.last_good_time

C11_Rotation ==
    view # None =>
        LET idx == SlotOfTime(Val(view).now)
        IN  /\ Len(Val(view).times) = NumSlots
            /\ Len(Val(view).statuses) = NumSlots
            /\ \A k \in 0 .. (NumSlots - 1) :
                 /\ Val(view).times[k + 1]
                      = pl.response_times[(idx + 1 + k) % NumSlots]
                 /\ Val(view).statuses[k + 1]
                      = pl.operational_statuses[(idx + 1 + k) % NumSlots]

\* the window of a record with samples in two slots, read in an hour that is
\* not the last of the week: the slot of now comes last
C11_Witness ==
    /\ view # None
    /\ SlotOfTime(Val(view).now) < NumSlots - 1
    /\ \E i, j \in Slots : i # j /\ Present(pl, i) /\ Present(pl, j)
    /\ Val(view).statuses[NumSlots] # None
    /\ Val(view).statuses[NumSlots]
         = pl.operational_statuses[SlotOfTime(Val(view).now)]

\* ---------------------------------------------------------------- C12
\* C12: for now >= updated, each element get_current_data returns at position
\* k (from 0) is the sample recorded in the hour 167 - k hours before the hour
\* of now; none comes from a sample taken 168 hours or more before now.
C12_Chronological ==
    (view # None /\ pl.updated # None /\ Val(view).now >= Val(pl.updated)) =>
        \A k \in 0 .. (NumSlots - 1) :
            LET i == (SlotOfTime(Val(view).now) + 1 + k) % NumSlots
            IN  Val(view).statuses[k + 1] # None =>
                   /\ written[i] # None
                   /\ Val(written[i]).dt \div MinutesPerHour
                        = (Val(view).now \div MinutesPerHour) - (NumSlots - 1 - k)
                   /\ Val(view).now - Val(written[i]).dt < NumSlots * MinutesPerHour

\* ---------------------------------------------------------------- C13
\* C13 as stated: in every reachable state last_good_time is present exactly
\* when last_operational_status is true.
C13_GoodTimeIffOperational ==
    (pl.last_good_time # None) <=> (pl.last_operational_status = Some(TRUE))

\* C13 as amended: in every reachable state, if last_operational_status is
\* true then last_good_time is present and equals updated; last_good_time may
\* be present while last_operational_status is false.
C13_OperationalHasGoodTime ==
    pl.last_operational_status = Some(TRUE) =>
        /\ pl.last_good_time # None
        /\ pl.last_good_time = pl.updated

\* an operational sample was just recorded
C13_Witness ==
    /\ FreshCall
    /\ call.operational_status = Some(TRUE)
    /\ pl.last_operational_status = Some(TRUE)
    /\ pl.last_good_time = call.dt

\* ---------------------------------------------------------------- C14
\* C14: in every reachable state last_good_time is the dt of the last recorded
\* sample that was operational, is unset if there was none, is left as it was
\* by a sample that is not operational or is rejected, and is not after
\* updated.
C14_LastGoodSample ==
    /\ pl.last_good_time = good
    /\ (Called /\ (StaleCall \/ call.operational_status # Some(TRUE)))
          => pl.last_good_time = prev.last_good_time
    /\ pl.last_good_time # None =>
          /\ pl.updated # None
          /\ Val(pl.last_good_time) <= Val(pl.updated)

\* a sample that was not operational came after an operational one and
\* last_good_time kept the time of that one
C14_Witness ==
    /\ FreshCall
    /\ call.operational_status = Some(FALSE)
    /\ prev.last_good_time # None
    /\ pl.last_good_time = prev.last_good_time
    /\ Val(pl.last_good_time) < Val(pl.updated)

C19_LastMirrorsSlot ==
    pl.updated # None =>
        Triple(pl, SlotOfTime(Val(pl.updated)))
          = << pl.last_response_time, pl.last_response_code,
               pl.last_operational_status >>

\* the walk of the last call reached the hour of dt, whose slot holds the
\* sample of the call
C19_Witness ==
    /\ FreshCall /\ prev.updated # None
    /\ GapHours >= 1
    /\ iters = GapHours
    /\ Triple(pl, SlotOfTime(Val(pl.updated))) = CallTriple
    /\ pl.last_response_code = call.response_code

\* ---------------------------------------------------------------- C20
\* C20: when the service of the record is not found, ping_service fails: it
\* does not call the probe and changes no field and no slot of the record.
C20_MissingService ==
    (call.op \in {"ping_service", "ping_service_assert"} /\ call.service = None) =>
        /\ call.op = "ping_service_assert"
        /\ ret = << "AssertionError" >>
        /\ call.probe = "none"
        /\ pl = prev

\* a ping cycle on a record that holds a sample, the service not found
C20_Witness ==
    /\ call.op = "ping_service_assert"
    /\ call.service = None
    /\ prev.updated # None
    /\ pl = prev

\* ---------------------------------------------------------------- C15
\* C15: for every timestamp t the index is in 0..167 and is
\* weekday(t) * 24 + hour(t) with Monday = 0, it is the index of t + 7 days,
\* and two timestamps have the same index exactly when they are in the same
\* hour of the week.
C15_Ring ==
    (index # None /\ Val(index).idx # None) =>
        LET t == Val(index).t
            u == Val(index).u
            r == Val(Val(index).idx)
        IN  /\ r.t # None /\ Val(r.t) \in 0 .. 167
            /\ Val(r.t) = ((t \div 1440) % 7) * 24 + ((t % 1440) \div 60)
            /\ r.week = r.t
            /\ (r.u = r.t) <=> ((u \div 60) % 168 = (t \div 60) % 168)

\* two timestamps in different weeks, on a Sunday and on a Monday, with the
\* same index
C15_Witness ==
    /\ index # None /\ Val(index).idx # None
    /\ Val(index).u = Val(index).t + 10080
    /\ Val(index).t \div 1440 = 6
    /\ Val(Val(index).idx).u = Val(Val(index).idx).t
    /\ Val(Val(Val(index).idx).t) >= 144

\* ---------------------------------------------------------------- C17
\* C17: two set_ping_data calls with dtA < dtB that interleave can both pass
\* the comparison with the same value of updated, and updated is then set to
\* dtB and afterwards to dtA.  As a property of every step: updated decreases
\* only in the "set latest" of a call that compared its dt with a value of
\* updated that another call has replaced since, and passed.
C17_DecreaseOnlyByRace ==
    [][(pl.updated # None /\ Val(pl'.updated) < Val(pl.updated)) =>
          \E th \in Threads :
             /\ threads[th].pc = "latest" /\ threads'[th].pc = "window"
             /\ pl'.updated = threads[th].dt
             /\ threads[th].seen # pl.updated
             /\ (threads[th].seen = None
                   \/ Val(threads[th].seen) <= Val(threads[th].dt))
             /\ \E o \in Threads \ {th} :
                  /\ threads[o].pc \in {"window", "done"}
                  /\ threads[o].dt = pl.updated]_vars

\* both calls passed the comparison with the same updated, B set updated to
\* dtB, A set it to dtA < dtB after that
C17_Witness ==
    /\ threads["A"].pc \in {"window", "done"}
    /\ threads["B"].pc \in {"window", "done"}
    /\ threads["A"].ret # None \/ threads["A"].pc = "window"
    /\ threads["B"].ret # None \/ threads["B"].pc = "window"
    /\ threads["A"].seen # None
    /\ threads["A"].seen = threads["B"].seen
    /\ Val(threads["A"].dt) < Val(threads["B"].dt)
    /\ pl.updated = threads["A"].dt

\* ---------------------------------------------------------------- C18
\* C18: a get_for_service call made while no document is saved for the
\* service id returns a new document for it (all 168 slots absent, updated
\* unset, not saved); two callers that both got such a document for the same
\* service id and both saved it leave two documents for that service id in the
\* collection.
C18_FindOrCreateNotAtomic ==
    /\ \A c \in Clients :
         (clients[c].pc # "idle" /\ ~clients[c].found) =>
            LET d == Val(clients[c].doc)
            IN  /\ d._id = None
                /\ Some(d.doc.service_id) = clients[c].service_id
                /\ d.doc.updated = None
                /\ \A i \in Slots : Triple(d.doc, i) = AbsentTriple
    /\ \A c, e \in Clients :
         (/\ c # e
          /\ clients[c].pc = "saved" /\ clients[e].pc = "saved"
          /\ ~clients[c].found /\ ~clients[e].found
          /\ clients[c].service_id = clients[e].service_id) =>
            Cardinality({ x \in store :
                            Some(x.doc.service_id) = clients[c].service_id }) >= 2

\* both callers looked the same service up before either saved, both saved:
\* two documents for one service id
C18_Witness ==
    /\ clients["c1"].pc = "saved" /\ clients["c2"].pc = "saved"
    /\ ~clients["c1"].found /\ ~clients["c2"].found
    /\ clients["c1"].service_id = Some("svc")
    /\ clients["c2"].service_id = Some("svc")
    /\ Cardinality({ x \in store : x.doc.service_id = "svc" }) = 2

====
